---- MODULE Spec2Model ----
(***************************************************************************)
(* Step-target itinerary optimizer of paris_transport                      *)
(* (src/code/custom_step.py; the aggregator is also in step_itenary.py).   *)
(*                                                                         *)
(* Numeric conventions.  The program computes with floats; the model uses  *)
(* exact integers:                                                         *)
(*   - a coordinate is an integer position in metres on a line, and        *)
(*     haversine_distance is the distance between two positions, in m;     *)
(*   - a step length is in millimetres (height_cm * 4.14 mm);              *)
(*   - target_distance, search_radius and score are in millimetres;        *)
(*   - an emission factor is in tenths of g/km, and CO2 totals are in      *)
(*     m * (0.1 g/km), i.e. units of 0.0001 g.                             *)
(* A text (a mode name) is the sequence of its characters.                 *)
(*                                                                         *)
(* Spec is a run of __main__ in these units.  SpecStride applies the three *)
(* stride functions by themselves in IEEE-754 double arithmetic, where     *)
(* their rounding shows.                                                   *)
(***************************************************************************)
EXTENDS Integers, Sequences, FiniteSets, TLC

\* ------------------------------------------------------------------ bounds

\* stations a narrow Transit Directory answer holds
FewNearby == 2
\* stations a wide Transit Directory answer holds (more than MAX_STATIONS)
ManyNearby == 12

\* ------------------------------------------------------- program constants

MAX_STATIONS == 10
\* float('inf'): scores are absolute values, so -1 is free to stand for it
Inf == -1
\* origin and destination of the run (from_lat/from_lon, to_lat/to_lon)
Origin == 0
Dest == 10000

Abs(x) == IF x < 0 THEN -x ELSE x
Min2(a, b) == IF a < b THEN a ELSE b
Max2(a, b) == IF a > b THEN a ELSE b

\* Python's int(a / b) for b # 0: the quotient truncated toward zero
TruncDiv(a, b) ==
  IF (a >= 0) = (b > 0) THEN Abs(a) \div Abs(b) ELSE -(Abs(a) \div Abs(b))

\* ------------------------------------------------------------------- texts

Str_RER == <<"R", "E", "R">>
Str_Metro == <<"M", "e", "t", "r", "o">>
Str_Bus == <<"B", "u", "s">>
Str_Tramway == <<"T", "r", "a", "m", "w", "a", "y">>
Str_Train == <<"T", "r", "a", "i", "n">>
Str_Car == <<"C", "a", "r">>
Str_RER_A == <<"R", "E", "R", " ", "A">>
Str_Navette == <<"N", "a", "v", "e", "t", "t", "e">>
Str_Empty == <<>>

\* CO2 emissions, in tenths of g per passenger-km
EMISSIONS ==
  { <<Str_RER, 38>>, <<Str_Metro, 32>>, <<Str_Bus, 953>>,
    <<Str_Tramway, 33>>, <<Str_Train, 38>>, <<Str_Car, 2060>> }

\* dict.get(key, default)
DictGet(d, key, default) ==
  IF \E e \in d : e[1] = key
    THEN (CHOOSE e \in d : e[1] = key)[2]
    ELSE default

RECURSIVE SplitAcc(_, _, _, _)
SplitAcc(s, k, cur, out) ==
  IF k > Len(s)
    THEN IF cur = <<>> THEN out ELSE Append(out, cur)
    ELSE IF s[k] = " "
      THEN SplitAcc(s, k + 1, <<>>, IF cur = <<>> THEN out ELSE Append(out, cur))
      ELSE SplitAcc(s, k + 1, Append(cur, s[k]), out)

\* str.split(): the whitespace-delimited tokens of s
Split(s) == SplitAcc(s, 1, <<>>, <<>>)

\* ------------------------------------------------------------ stride model

\* (height_cm / 100) * 0.414 m, in mm
calculate_step_length(height_cm) == (height_cm * 414) \div 100

\* int(distance_meters / step_length); step_length # 0
calculate_steps_Mut(distance_m, step_length) ==
  TruncDiv(distance_m, step_length) * 1000
calculate_steps(distance_m, step_length) ==
  TruncDiv(distance_m * 1000, step_length)

\* steps * step_length, in mm
calculate_distance_from_steps(steps, step_length) == steps * step_length

\* ------------------------------------------------ double-precision floats
\* The stride functions once more, in the arithmetic Python computes them
\* in: IEEE-754 binary64, every operation rounded to nearest, ties to even.
\* A natural number of any size is the sequence of its digits in base
\* 2^LimbBits, lowest first, without leading zeros (0 is <<>>); a float is
\* m * 2^e with m of exactly MantissaBits bits, or Zero.  Only values >= 0
\* occur.

MantissaBits == 53
LimbBits == 15
Base == 2^LimbBits

LNorm(x) ==
  LET used == { i \in 1..Len(x) : x[i] # 0 }
  IN  IF used = {} THEN <<>>
      ELSE SubSeq(x, 1, CHOOSE i \in used : \A j \in used : j <= i)

RECURSIVE LFromInt(_)
LFromInt(n) == IF n = 0 THEN <<>> ELSE <<n % Base>> \o LFromInt(n \div Base)

RECURSIVE LToInt(_)
LToInt(x) == IF x = <<>> THEN 0 ELSE x[1] + Base * LToInt(Tail(x))

LDigit(x, i) == IF i <= Len(x) THEN x[i] ELSE 0

RECURSIVE LAddFrom(_, _, _, _)
LAddFrom(a, b, i, carry) ==
  IF i > Len(a) /\ i > Len(b) THEN (IF carry = 0 THEN <<>> ELSE <<carry>>)
  ELSE LET t == LDigit(a, i) + LDigit(b, i) + carry
       IN  <<t % Base>> \o LAddFrom(a, b, i + 1, t \div Base)
LAdd(a, b) == LAddFrom(a, b, 1, 0)

\* a - b for a >= b
RECURSIVE LSubFrom(_, _, _, _)
LSubFrom(a, b, i, borrow) ==
  IF i > Len(a) THEN <<>>
  ELSE LET t == LDigit(a, i) - LDigit(b, i) - borrow
       IN  <<IF t < 0 THEN t + Base ELSE t>>
             \o LSubFrom(a, b, i + 1, IF t < 0 THEN 1 ELSE 0)
LSub(a, b) == LNorm(LSubFrom(a, b, 1, 0))

\* a < b and a <= b
LLess(a, b) ==
  \/ Len(a) < Len(b)
  \/ /\ Len(a) = Len(b)
     /\ \E i \in 1..Len(a) :
          a[i] < b[i] /\ \A j \in (i + 1)..Len(a) : a[j] = b[j]
LLeq(a, b) == a = b \/ LLess(a, b)

\* a * d for a digit d
RECURSIVE LMulSmallFrom(_, _, _, _)
LMulSmallFrom(a, d, i, carry) ==
  IF i > Len(a) THEN (IF carry = 0 THEN <<>> ELSE <<carry>>)
  ELSE LET t == a[i] * d + carry
       IN  <<t % Base>> \o LMulSmallFrom(a, d, i + 1, t \div Base)
LMulSmall(a, d) == IF d = 0 THEN <<>> ELSE LMulSmallFrom(a, d, 1, 0)

\* a * Base^k and a \div Base^k
LShlLimbs(a, k) == IF a = <<>> THEN <<>> ELSE [i \in 1..k |-> 0] \o a
LShrLimbs(a, k) == IF k >= Len(a) THEN <<>> ELSE SubSeq(a, k + 1, Len(a))

RECURSIVE LMulFrom(_, _, _)
LMulFrom(a, b, i) ==
  IF i > Len(b) THEN <<>>
  ELSE LAdd(LShlLimbs(LMulSmall(a, b[i]), i - 1), LMulFrom(a, b, i + 1))
LMul(a, b) == LMulFrom(a, b, 1)

\* a \div d for a digit d > 0: the digits of a from digit i up, divided
RECURSIVE LDivSmallFrom(_, _, _)
LDivSmallFrom(a, d, i) ==
  IF i > Len(a) THEN [q |-> <<>>, r |-> 0]
  ELSE LET high == LDivSmallFrom(a, d, i + 1)
           t == high.r * Base + a[i]
       IN  [q |-> <<t \div d>> \o high.q, r |-> t % d]
LDivSmall(a, d) == LNorm(LDivSmallFrom(a, d, 1).q)

\* a * 2^n and a \div 2^n
LShl(a, n) == LShlLimbs(LMulSmall(a, 2^(n % LimbBits)), n \div LimbBits)
LShr(a, n) == LDivSmall(LShrLimbs(a, n \div LimbBits), 2^(n % LimbBits))

\* the number of bits of a
LBitLen(a) ==
  IF a = <<>> THEN 0
  ELSE LimbBits * (Len(a) - 1)
         + (CHOOSE k \in 1..LimbBits : 2^(k - 1) <= a[Len(a)] /\ a[Len(a)] < 2^k)

\* the greatest digit d in lo..hi with b * d <= a, by bisection
RECURSIVE LQuotientDigit(_, _, _, _)
LQuotientDigit(a, b, lo, hi) ==
  IF lo = hi THEN lo
  ELSE LET mid == (lo + hi + 1) \div 2
       IN  IF LLeq(LMulSmall(b, mid), a)
             THEN LQuotientDigit(a, b, mid, hi)
             ELSE LQuotientDigit(a, b, lo, mid - 1)

\* long division: quotient and remainder of the number made of the digits
\* of a from digit i up, by b # 0
RECURSIVE LDivFrom(_, _, _)
LDivFrom(a, b, i) ==
  IF i > Len(a) THEN [q |-> <<>>, r |-> <<>>]
  ELSE LET high == LDivFrom(a, b, i + 1)
           shifted == LNorm(<<a[i]>> \o high.r)
           d == LQuotientDigit(shifted, b, 0, Base - 1)
       IN  [q |-> <<d>> \o high.q, r |-> LSub(shifted, LMulSmall(b, d))]
LDivMod(a, b) ==
  LET whole == LDivFrom(a, b, 1)
  IN  [q |-> LNorm(whole.q), r |-> whole.r]

Zero == [m |-> <<>>, e |-> 0]

\* the float nearest to big * 2^e, ties to even
Round(big, e) ==
  IF big = <<>> THEN Zero
  ELSE IF LBitLen(big) <= MantissaBits
    THEN [m |-> LShl(big, MantissaBits - LBitLen(big)),
          e |-> e - (MantissaBits - LBitLen(big))]
  ELSE LET d == LBitLen(big) - MantissaBits
           kept == LShr(big, d)
           dropped == LSub(big, LShl(kept, d))
           half == LShl(<<1>>, d - 1)
           up == LLess(half, dropped) \/ (dropped = half /\ kept[1] % 2 = 1)
           rounded == IF up THEN LAdd(kept, <<1>>) ELSE kept
       IN  IF LBitLen(rounded) > MantissaBits
             THEN [m |-> LShr(rounded, 1), e |-> e + d + 1]
             ELSE [m |-> rounded, e |-> e + d]

\* float(n) for an integer n >= 0
FromInt(n) == Round(LFromInt(n), 0)

\* a * b
FMul(a, b) ==
  IF a = Zero \/ b = Zero THEN Zero
  ELSE Round(LMul(a.m, b.m), a.e + b.e)

\* a / b for b # 0: the quotient to 3 bits more than a mantissa, a last bit
\* telling whether anything was left, rounded
FDiv(a, b) ==
  IF a = Zero THEN Zero
  ELSE LET dm == LDivMod(LShl(a.m, MantissaBits + 3), b.m)
           big == LAdd(LShl(dm.q, 1), IF dm.r = <<>> THEN <<>> ELSE <<1>>)
       IN  Round(big, a.e - b.e - (MantissaBits + 3) - 1)

\* int(a) for a >= 0
FTrunc(a) ==
  IF a = Zero THEN 0
  ELSE IF a.e >= 0 THEN LToInt(LShl(a.m, a.e))
  ELSE LToInt(LShr(a.m, -a.e))

\* (height_cm / 100) * 0.414, in m; 0.414 is the float nearest to 414/1000
calculate_step_length_float(height_cm) ==
  FMul(FDiv(FromInt(height_cm), FromInt(100)),
       FDiv(FromInt(414), FromInt(1000)))

\* int(distance_meters / step_length); step_length # 0
calculate_steps_float(distance_meters, step_length) ==
  FTrunc(FDiv(distance_meters, step_length))

\* steps * step_length, in m
calculate_distance_from_steps_float_Mut(steps, step_length) ==
  FMul(FromInt(steps + 1), step_length)
calculate_distance_from_steps_float(steps, step_length) ==
  FMul(FromInt(steps), step_length)

\* ----------------------------------------------------------------- geodesy

haversine_distance(a, b) == Abs(a - b)

\* ------------------------------------------------- payloads (data model)

\* a place of a places_nearby answer; has_stop_point: the entry has the
\* stop_point.coord keys the search reads
Place(id, pos, has_stop_point) ==
  [id |-> id, pos |-> pos, has_stop_point |-> has_stop_point]

\* an endpoint ('from' / 'to') of a section.  present = FALSE: the key is
\* absent or its value is empty.  pos is the coordinate of whichever of the
\* address / stop_point variants the endpoint has.
Addr(p) ==
  [present |-> TRUE, embedded_type |-> "address", has_address |-> TRUE,
   has_stop_point |-> FALSE, pos |-> p]
Stop(p) ==
  [present |-> TRUE, embedded_type |-> "stop_point", has_address |-> FALSE,
   has_stop_point |-> TRUE, pos |-> p]
\* a non-empty endpoint with neither an address nor a stop_point variant
Poi(p) ==
  [present |-> TRUE, embedded_type |-> "poi", has_address |-> FALSE,
   has_stop_point |-> FALSE, pos |-> p]
NoEndpoint ==
  [present |-> FALSE, embedded_type |-> "", has_address |-> FALSE,
   has_stop_point |-> FALSE, pos |-> 0]

\* display_informations of a section: has_mode = the physical_mode key exists
Info(has_mode, physical_mode) ==
  [has_mode |-> has_mode, physical_mode |-> physical_mode]
NoInfo == Info(FALSE, Str_Empty)

Section(type, mode, from, to, info) ==
  [type |-> type, mode |-> mode, from |-> from, to |-> to,
   display_informations |-> info]

Walk(from, to) == Section("street_network", "walking", from, to, NoInfo)
Bike(from, to) == Section("street_network", "bike", from, to, NoInfo)
Ride(info, from, to) == Section("public_transport", "", from, to, info)
Wait == Section("waiting", "", NoEndpoint, NoEndpoint, NoInfo)
Transfer(from, to) == Section("transfer", "", from, to, NoInfo)

\* a journey of a journeys answer; oid is the identity of the object
\* (the queried pair and the journey's place in that answer)
Journey(oid, has_sections, has_duration, sections) ==
  [oid |-> oid, has_sections |-> has_sections, has_duration |-> has_duration,
   sections |-> sections]

\* best_journey = None
None == Journey(<<0, 0, 0>>, FALSE, FALSE, <<>>)

\* --------------------------------------------------------- core functions

\* calculate_walking_distance: the value returned and whether the KeyError
\* diagnostic was printed
calculate_walking_distance(journey_section) ==
  LET from == journey_section.from
      to == journey_section.to
      from_ok == IF from.embedded_type = "address"
                   THEN from.has_address ELSE from.has_stop_point
      to_ok == IF to.embedded_type = "address"
                 THEN to.has_address ELSE to.has_stop_point
  IN  IF ~from.present \/ ~to.present
        THEN [value |-> 0, diagnostic |-> FALSE]
        ELSE IF from_ok /\ to_ok
          THEN [value |-> haversine_distance(from.pos, to.pos),
                diagnostic |-> FALSE]
          ELSE [value |-> 0, diagnostic |-> TRUE]

IsWalking(section) ==
  section.type = "street_network" /\ section.mode = "walking"

RECURSIVE SumWalking(_, _)
SumWalking(sections, k) ==
  IF k > Len(sections) THEN 0
  ELSE (IF IsWalking(sections[k])
          THEN calculate_walking_distance(sections[k]).value ELSE 0)
       + SumWalking(sections, k + 1)

\* total_walking_distance of find_best_route, in m
total_walking_distance_Mut(journey) == SumWalking(journey.sections, 2)
total_walking_distance(journey) == SumWalking(journey.sections, 1)

\* score = abs(total_walking_distance - target_distance), in mm
Score(journey, target_distance) ==
  Abs(total_walking_distance(journey) * 1000 - target_distance)

\* score < best_score
Better_Mut(score, best_score) == best_score = Inf \/ score <= best_score
Better(score, best_score) == best_score = Inf \/ score < best_score

\* the loop over result['journeys']: the tracker after the journeys from k
\* on; raised = a journey without 'sections' ended the loop with a KeyError
RECURSIVE EvalJourneys(_, _, _, _)
EvalJourneys(journeys, k, tracker, target_distance) ==
  IF k > Len(journeys) THEN tracker
  ELSE IF ~journeys[k].has_sections THEN [tracker EXCEPT !.raised = TRUE]
  ELSE LET score == Score(journeys[k], target_distance)
       IN  EvalJourneys(journeys, k + 1,
             IF Better(score, tracker.best_score)
               THEN [tracker EXCEPT !.best_score = score,
                                    !.best_journey = journeys[k]]
               ELSE tracker,
             target_distance)

\* the body of the try block for one pair, given get_itinerary's answer
ProcessResult_Mut(result, tracker, target_distance) ==
  LET after == EvalJourneys(result.journeys, 1, tracker, target_distance)
  IN  IF result.status = "error" \/ after.raised
        THEN [tracker EXCEPT !.raised = TRUE]
        ELSE after
ProcessResult(result, tracker, target_distance) ==
  IF result.status = "error" THEN [tracker EXCEPT !.raised = TRUE]
  ELSE IF result.journeys = <<>> THEN tracker
  ELSE EvalJourneys(result.journeys, 1, tracker, target_distance)

\* list.sort(key = distance to center): stable insertion sort
RECURSIVE InsertSorted(_, _, _)
InsertSorted(sorted, x, center) ==
  IF sorted = <<>> THEN <<x>>
  ELSE LET last == sorted[Len(sorted)]
       IN  IF haversine_distance(last.pos, center)
                <= haversine_distance(x.pos, center)
             THEN Append(sorted, x)
             ELSE Append(InsertSorted(SubSeq(sorted, 1, Len(sorted) - 1),
                                      x, center), last)

RECURSIVE SortPrefix(_, _, _)
SortPrefix(stations, n, center) ==
  IF n = 0 THEN <<>>
  ELSE InsertSorted(SortPrefix(stations, n - 1, center), stations[n], center)

SortByDistance(stations, center) == SortPrefix(stations, Len(stations), center)

\* the key function reads x['stop_point']['coord']: KeyError without it
SortRaises(stations) ==
  \E k \in 1..Len(stations) : ~stations[k].has_stop_point

\* target_steps > 3000
HighStepCount_Mut(target_steps) == target_steps >= 3000
HighStepCount(target_steps) == target_steps > 3000

\* stations[-MAX_STATIONS:] and stations[:MAX_STATIONS]
Farthest(stations) ==
  SubSeq(stations, Max2(1, Len(stations) - MAX_STATIONS + 1), Len(stations))
Closest(stations) == SubSeq(stations, 1, Min2(MAX_STATIONS, Len(stations)))

SelectStations(stations, target_steps) ==
  IF HighStepCount(target_steps) THEN Farthest(stations) ELSE Closest(stations)

\* ------------------------------------------------- itinerary aggregator

\* a line of the printed output; a KeyError diagnostic names no section
Line(kind, section, steps) == [kind |-> kind, section |-> section, steps |-> steps]
Diagnostic == Line("diagnostic", 0, 0)

\* the state of format_itinerary_with_steps before its loop
FormatStart ==
  [raised |-> FALSE, total_walking_distance |-> 0, total_distance |-> 0,
   total_co2 |-> 0, lines |-> <<>>]

\* the emission factor looked up for a public_transport section:
\* EMISSIONS.get(physical_mode.split()[0], 0)
EmissionFactor_Mut(tokens) == DictGet(EMISSIONS, tokens[Len(tokens)], 0)
EmissionFactor(tokens) == DictGet(EMISSIONS, tokens[1], 0)

\* one iteration of the loop over journey['sections'], on section k
FormatSection(acc, section, k, step_length) ==
  LET cwd == calculate_walking_distance(section)
      logged == IF cwd.diagnostic THEN Append(acc.lines, Diagnostic)
                ELSE acc.lines
      info == section.display_informations
      tokens == Split(IF info.has_mode THEN info.physical_mode ELSE Str_Empty)
  IN  IF section.type = "public_transport"
        THEN IF tokens = <<>> \/ ~info.has_mode
                  \/ ~section.from.present \/ ~section.to.present
               \* IndexError of split()[0], KeyError of the printed keys
               THEN [acc EXCEPT !.raised = TRUE, !.lines = logged]
               ELSE [acc EXCEPT
                       !.total_distance = @ + cwd.value,
                       !.total_co2 = @ + cwd.value * EmissionFactor(tokens),
                       !.lines = Append(logged, Line("take", k, 0))]
      ELSE IF IsWalking(section)
        THEN IF step_length = 0
               \* ZeroDivisionError of calculate_steps
               THEN [acc EXCEPT !.raised = TRUE, !.lines = logged]
               ELSE [acc EXCEPT
                       !.total_walking_distance = @ + cwd.value,
                       !.lines = Append(logged,
                          Line("walk", k,
                               calculate_steps(cwd.value, step_length)))]
      ELSE IF section.type = "waiting"
        THEN [acc EXCEPT !.lines = Append(@, Line("wait", k, 0))]
      ELSE acc

RECURSIVE FormatSections(_, _, _, _)
FormatSections(acc, sections, k, step_length) ==
  IF k > Len(sections) \/ acc.raised THEN acc
  ELSE FormatSections(FormatSection(acc, sections[k], k, step_length),
                      sections, k + 1, step_length)

\* format_itinerary_with_steps({'journeys': [journey]}, step_length):
\* raised = an uncaught exception ended it, else the Summary it printed
format_itinerary_with_steps(journey, step_length) ==
  LET acc == IF ~journey.has_duration \/ ~journey.has_sections
               THEN [FormatStart EXCEPT !.raised = TRUE]
               ELSE FormatSections(FormatStart, journey.sections, 1, step_length)
      failed == acc.raised \/ step_length = 0
      car_co2 == acc.total_distance * DictGet(EMISSIONS, Str_Car, 0)
  IN  [raised |-> failed,
       lines |-> acc.lines,
       total_steps |-> IF failed THEN 0
                       ELSE calculate_steps(acc.total_walking_distance, step_length),
       total_walking_distance |-> acc.total_walking_distance,
       total_distance |-> acc.total_distance,
       total_co2 |-> acc.total_co2,
       car_co2 |-> car_co2,
       co2_saved |-> car_co2 - acc.total_co2]

NoSummary ==
  [raised |-> FALSE, lines |-> <<>>, total_steps |-> 0,
   total_walking_distance |-> 0, total_distance |-> 0, total_co2 |-> 0,
   car_co2 |-> 0, co2_saved |-> 0]

\* ------------------------------------------ environment: Transit Directory

\* the k-th place around center: alternately before and behind it, several
\* places at the same distance
Offset(k) == (IF k % 2 = 0 THEN 1 ELSE -1) * (((k * 5) % 7) + 1) * 100

Nearby(center, n) == [k \in 1..n |-> Place(k, center + Offset(k), TRUE)]

\* an answer one of whose places lacks the stop_point keys
NearbyMalformed(center) ==
  <<Place(1, center + Offset(1), TRUE), Place(2, center + Offset(2), FALSE)>>

\* what find_stations_in_radius can get for a center: a failed request, no
\* place, a few places, more places than MAX_STATIONS, a malformed place
DirectoryAnswers(center) ==
  { [status |-> "error", places_nearby |-> <<>>],
    [status |-> "ok", places_nearby |-> <<>>],
    [status |-> "ok", places_nearby |-> Nearby(center, FewNearby)],
    [status |-> "ok", places_nearby |-> Nearby(center, ManyNearby)],
    [status |-> "ok", places_nearby |-> NearbyMalformed(center)] }

\* find_stations_in_radius: data.get('places_nearby', []), [] on an error
find_stations_in_radius(answer) ==
  IF answer.status = "error" THEN <<>> ELSE answer.places_nearby

\* -------------------------------------------- environment: Journey Service

BusInfo == Info(TRUE, Str_Bus)
RerInfo == Info(TRUE, Str_RER_A)
NavetteInfo == Info(TRUE, Str_Navette)
EmptyModeInfo == Info(TRUE, Str_Empty)
NoModeInfo == Info(FALSE, Str_Empty)

\* 1864 m on foot
JourneyA(oid) ==
  Journey(oid, TRUE, TRUE, <<Walk(Addr(0), Stop(1864))>>)
\* 1863 m on foot in two walks, 2 km by Bus
JourneyB(oid) ==
  Journey(oid, TRUE, TRUE,
    <<Walk(Addr(0), Stop(1000)), Wait, Ride(BusInfo, Stop(1000), Stop(3000)),
      Transfer(Stop(3000), Stop(3000)), Walk(Stop(3000), Addr(3863))>>)
\* 500 m on foot, 5 km by RER A, 1.5 km by bike
JourneyC(oid) ==
  Journey(oid, TRUE, TRUE,
    <<Walk(Addr(0), Stop(500)), Ride(RerInfo, Stop(500), Stop(5500)),
      Bike(Stop(5500), Addr(7000))>>)
\* 1863 m on foot, 1.5 km by a mode the emission table does not know
JourneyD(oid) ==
  Journey(oid, TRUE, TRUE,
    <<Ride(NavetteInfo, Stop(0), Stop(1500)), Walk(Stop(1500), Addr(3363))>>)
\* a walk without its 'from' endpoint, then 1863 m on foot
JourneyE(oid) ==
  Journey(oid, TRUE, TRUE,
    <<Walk(NoEndpoint, Stop(900)), Walk(Stop(900), Addr(2763))>>)
\* a walk from an endpoint with neither variant, then 1864 m on foot
JourneyF(oid) ==
  Journey(oid, TRUE, TRUE,
    <<Walk(Poi(0), Stop(900)), Walk(Stop(900), Addr(2764))>>)
\* 1863 m on foot, a ride whose physical_mode is the empty text
JourneyG(oid) ==
  Journey(oid, TRUE, TRUE,
    <<Walk(Addr(0), Stop(1863)), Ride(EmptyModeInfo, Stop(1863), Stop(4000))>>)
\* 1864 m on foot, a ride without the physical_mode key
JourneyH(oid) ==
  Journey(oid, TRUE, TRUE,
    <<Walk(Addr(0), Stop(1864)), Ride(NoModeInfo, Stop(1864), Stop(4000))>>)
\* a journey without the 'duration' key, 1863 m on foot
JourneyK(oid) ==
  Journey(oid, TRUE, FALSE, <<Walk(Addr(0), Stop(1863))>>)
\* a journey without the 'sections' key
JourneyN(oid) == Journey(oid, FALSE, TRUE, <<>>)

AnswerKinds ==
  {"error", "empty", "AB", "CD", "BNA", "E", "FG", "KH"}

\* the journeys of an answer of the given kind to the query from f to t
JourneysOf(kind, f, t) ==
  CASE kind = "AB" -> <<JourneyA(<<f, t, 1>>), JourneyB(<<f, t, 2>>)>>
    [] kind = "CD" -> <<JourneyC(<<f, t, 1>>), JourneyD(<<f, t, 2>>)>>
    [] kind = "BNA" -> <<JourneyB(<<f, t, 1>>), JourneyN(<<f, t, 2>>),
                         JourneyA(<<f, t, 3>>)>>
    [] kind = "E" -> <<JourneyE(<<f, t, 1>>)>>
    [] kind = "FG" -> <<JourneyF(<<f, t, 1>>), JourneyG(<<f, t, 2>>)>>
    [] kind = "KH" -> <<JourneyK(<<f, t, 1>>), JourneyH(<<f, t, 2>>)>>
    [] OTHER -> <<>>

\* a behaviour of the Journey Service during one run: the kind of answer it
\* gives to every query but one, and the kind it gives to the query at
ServiceBehaviours ==
  [usual : AnswerKinds, special : AnswerKinds, at : {<<1, 2>>, <<2, 1>>}]

\* get_itinerary(from_station, to_station): status "error" = it raised
get_itinerary(service, from_station, to_station) ==
  LET kind == IF <<from_station.id, to_station.id>> = service.at
                THEN service.special ELSE service.usual
  IN  [status |-> IF kind = "error" THEN "error" ELSE "ok",
       journeys |-> JourneysOf(kind, from_station.id, to_station.id)]

\* ------------------------------------------------------------ the program

\* a call the program made: a Transit Directory request for an endpoint
\* ("origin", "destination"), a get_itinerary call for a pair of stations
\* ("journey"), the format_itinerary_with_steps call on a journey ("format")
Event(kind, from, to, oid) ==
  [kind |-> kind, from |-> from, to |-> to, oid |-> oid]

VARIABLES
  pc,                      \* where __main__ is
  height, target_steps,    \* the inputs read
  step_length, search_radius,
  service,                 \* the Journey Service's behaviour in this run
  from_stations, to_stations,
  selected_from_stations, selected_to_stations,
  from_idx, to_idx,        \* the pair the nested loops are at
  best_journey, best_score,
  outcome,                 \* how the run ended
  summary,                 \* what format_itinerary_with_steps printed
  directory_calls, journey_calls,   \* requests sent so far
  directory_errors,        \* Transit Directory requests that failed
  returned,                \* find_best_route has returned
  events,                  \* the calls made so far, in order
  trip                     \* a round trip of the stride conversions

vars ==
  <<pc, height, target_steps, step_length, search_radius, service,
    from_stations, to_stations, selected_from_stations,
    selected_to_stations, from_idx, to_idx, best_journey, best_score,
    outcome, summary, directory_calls, journey_calls, directory_errors,
    returned, events, trip>>

\* the heights (cm) and step targets a user may enter; nothing rejects one
Heights == {0, 150}
Targets == {-1, 3000, 3001}

\* no round trip of the stride conversions is under way
NoTrip ==
  [phase |-> "none", height |-> 0, steps |-> 0, step_length |-> Zero,
   distance |-> Zero, back |-> 0]

\* nothing read, nothing requested, nothing found yet
Untouched ==
  /\ height = 0 /\ target_steps = 0
  /\ step_length = 0 /\ search_radius = 0
  /\ from_stations = <<>> /\ to_stations = <<>>
  /\ selected_from_stations = <<>> /\ selected_to_stations = <<>>
  /\ from_idx = 0 /\ to_idx = 0
  /\ best_journey = None /\ best_score = Inf
  /\ outcome = "" /\ summary = NoSummary
  /\ directory_calls = 0 /\ journey_calls = 0 /\ directory_errors = 0
  /\ returned = FALSE
  /\ events = <<>>

Init ==
  /\ pc = "input"
  /\ service \in ServiceBehaviours
  /\ Untouched
  /\ trip = NoTrip

\* __main__: the two inputs, the step length and the search radius
ReadInputs ==
  /\ pc = "input"
  /\ \E h \in Heights, t \in Targets :
       /\ height' = h
       /\ target_steps' = t
       /\ step_length' = calculate_step_length(h)
       /\ search_radius' =
            calculate_distance_from_steps(t \div 2, calculate_step_length(h))
  /\ pc' = "origin"
  /\ UNCHANGED <<trip, service, from_stations, to_stations, selected_from_stations,
                 selected_to_stations, from_idx, to_idx, best_journey,
                 best_score, outcome, summary, directory_calls, journey_calls,
                 directory_errors, returned, events>>

\* __main__: find_stations_in_radius around the origin
FindOriginStations ==
  /\ pc = "origin"
  /\ \E answer \in DirectoryAnswers(Origin) :
       /\ from_stations' = find_stations_in_radius(answer)
       /\ directory_errors' =
            directory_errors + (IF answer.status = "error" THEN 1 ELSE 0)
  /\ directory_calls' = directory_calls + 1
  /\ events' = Append(events, Event("origin", 0, 0, <<0, 0, 0>>))
  /\ pc' = "destination"
  /\ UNCHANGED <<trip, height, target_steps, step_length, search_radius, service,
                 to_stations, selected_from_stations, selected_to_stations,
                 from_idx, to_idx, best_journey, best_score, outcome, summary,
                 journey_calls, returned>>

\* __main__: find_stations_in_radius around the destination
FindDestinationStations_Mut ==
  /\ pc = "destination"
  /\ IF from_stations = <<>>
       THEN UNCHANGED <<to_stations, directory_errors, directory_calls, events>>
       ELSE /\ \E answer \in DirectoryAnswers(Dest) :
                 /\ to_stations' = find_stations_in_radius(answer)
                 /\ directory_errors' =
                      directory_errors + (IF answer.status = "error" THEN 1 ELSE 0)
            /\ directory_calls' = directory_calls + 1
            /\ events' = Append(events, Event("destination", 0, 0, <<0, 0, 0>>))
  /\ pc' = "check"
  /\ UNCHANGED <<trip, height, target_steps, step_length, search_radius, service,
                 from_stations, selected_from_stations, selected_to_stations,
                 from_idx, to_idx, best_journey, best_score, outcome, summary,
                 journey_calls, returned>>
FindDestinationStations ==
  /\ pc = "destination"
  /\ \E answer \in DirectoryAnswers(Dest) :
       /\ to_stations' = find_stations_in_radius(answer)
       /\ directory_errors' =
            directory_errors + (IF answer.status = "error" THEN 1 ELSE 0)
  /\ directory_calls' = directory_calls + 1
  /\ events' = Append(events, Event("destination", 0, 0, <<0, 0, 0>>))
  /\ pc' = "check"
  /\ UNCHANGED <<trip, height, target_steps, step_length, search_radius, service,
                 from_stations, selected_from_stations, selected_to_stations,
                 from_idx, to_idx, best_journey, best_score, outcome, summary,
                 journey_calls, returned>>

\* not from_stations or not to_stations
NoStations_Mut(from, to) == from = <<>> /\ to = <<>>
NoStations(from, to) == from = <<>> \/ to = <<>>

\* __main__: the "no stations" exit
CheckStations ==
  /\ pc = "check"
  /\ IF NoStations(from_stations, to_stations)
       THEN outcome' = "no_stations" /\ pc' = "done"
       ELSE outcome' = outcome /\ pc' = "select"
  /\ UNCHANGED <<trip, height, target_steps, step_length, search_radius, service,
                 from_stations, to_stations, selected_from_stations,
                 selected_to_stations, from_idx, to_idx, best_journey,
                 best_score, summary, directory_calls, journey_calls,
                 directory_errors, returned, events>>

\* find_best_route up to its loops: the tracker, the two sorts (in place),
\* the selection.  A KeyError of a sort key is caught nowhere.  With an
\* empty selection the loops have no pair and the function returns.
SelectCandidates ==
  /\ pc = "select"
  /\ best_journey' = None
  /\ best_score' = Inf
  /\ IF SortRaises(from_stations) \/ SortRaises(to_stations)
       THEN /\ outcome' = "error"
            /\ pc' = "done"
            /\ UNCHANGED <<from_stations, to_stations, selected_from_stations,
                           selected_to_stations, from_idx, to_idx, returned>>
       ELSE LET from_sorted == SortByDistance(from_stations, Origin)
                to_sorted == SortByDistance(to_stations, Dest)
                from_selected == SelectStations(from_sorted, target_steps)
                to_selected == SelectStations(to_sorted, target_steps)
                no_pair == from_selected = <<>> \/ to_selected = <<>>
            IN  /\ from_stations' = from_sorted
                /\ to_stations' = to_sorted
                /\ selected_from_stations' = from_selected
                /\ selected_to_stations' = to_selected
                /\ from_idx' = 1
                /\ to_idx' = 1
                /\ returned' = no_pair
                /\ pc' = IF no_pair THEN "route" ELSE "search"
                /\ outcome' = outcome
  /\ UNCHANGED <<trip, height, target_steps, step_length, search_radius, service,
                 summary, directory_calls, journey_calls, directory_errors,
                 events>>

\* where the loops go after a pair: 'continue' in the except block and the
\* end of the try block both go to the next pair
AfterPair_Mut(raised, f, t, nf, nt) ==
  IF raised THEN [from_idx |-> nf + 1, to_idx |-> 1]
  ELSE IF t < nt THEN [from_idx |-> f, to_idx |-> t + 1]
  ELSE [from_idx |-> f + 1, to_idx |-> 1]
AfterPair(raised, f, t, nf, nt) ==
  IF t < nt THEN [from_idx |-> f, to_idx |-> t + 1]
  ELSE [from_idx |-> f + 1, to_idx |-> 1]

\* find_best_route: one iteration of the nested loops, a blocking
\* get_itinerary call and the evaluation of its journeys
QueryPair ==
  /\ pc = "search"
  /\ LET from_station == selected_from_stations[from_idx]
         to_station == selected_to_stations[to_idx]
         result == get_itinerary(service, from_station, to_station)
         target_distance ==
           calculate_distance_from_steps(target_steps, step_length)
         tracker == ProcessResult(result,
                      [best_journey |-> best_journey,
                       best_score |-> best_score, raised |-> FALSE],
                      target_distance)
         next == AfterPair(tracker.raised, from_idx, to_idx,
                           Len(selected_from_stations),
                           Len(selected_to_stations))
         over == next.from_idx > Len(selected_from_stations)
     IN  /\ best_journey' = tracker.best_journey
         /\ best_score' = tracker.best_score
         /\ from_idx' = next.from_idx
         /\ to_idx' = next.to_idx
         /\ returned' = over
         /\ pc' = IF over THEN "route" ELSE "search"
  /\ journey_calls' = journey_calls + 1
  /\ events' = Append(events,
                 Event("journey", selected_from_stations[from_idx].id,
                       selected_to_stations[to_idx].id, <<0, 0, 0>>))
  /\ UNCHANGED <<trip, height, target_steps, step_length, search_radius, service,
                 from_stations, to_stations, selected_from_stations,
                 selected_to_stations, outcome, summary, directory_calls,
                 directory_errors>>

\* if best_journey
HasRoute_Mut(journey) == TRUE
HasRoute(journey) == journey # None

\* __main__: the Summary of the route found, or "No suitable route found!"
ReportRoute ==
  /\ pc = "route"
  /\ IF HasRoute(best_journey)
       THEN LET printed == format_itinerary_with_steps(best_journey, step_length)
            IN  /\ summary' = printed
                /\ outcome' = IF printed.raised THEN "error" ELSE "summary"
                /\ events' = Append(events,
                                Event("format", 0, 0, best_journey.oid))
       ELSE /\ summary' = summary
            /\ outcome' = "no_route"
            /\ events' = events
  /\ pc' = "done"
  /\ UNCHANGED <<trip, height, target_steps, step_length, search_radius, service,
                 from_stations, to_stations, selected_from_stations,
                 selected_to_stations, from_idx, to_idx, best_journey,
                 best_score, directory_calls, journey_calls, directory_errors,
                 returned>>

Next ==
  \/ ReadInputs
  \/ FindOriginStations
  \/ FindDestinationStations
  \/ CheckStations
  \/ SelectCandidates
  \/ QueryPair
  \/ ReportRoute

Spec == Init /\ [][Next]_vars

\* ------------------------------------- the stride conversions by themselves
\* calculate_step_length, calculate_distance_from_steps and calculate_steps
\* applied one after the other to a height and a step count, as floats

MaxRoundTripSteps == 25
StrideHeights == {100, 150, 170, 180}

Pipeline ==
  <<pc, height, target_steps, step_length, search_radius, service,
    from_stations, to_stations, selected_from_stations,
    selected_to_stations, from_idx, to_idx, best_journey, best_score,
    outcome, summary, directory_calls, journey_calls, directory_errors,
    returned, events>>

InitStride ==
  /\ pc = "stride"
  /\ service = [usual |-> "empty", special |-> "empty", at |-> <<1, 2>>]
  /\ Untouched
  /\ \E h \in StrideHeights, n \in 0..MaxRoundTripSteps :
       trip = [NoTrip EXCEPT !.phase = "input", !.height = h, !.steps = n]

\* step_length = calculate_step_length(height)
StepLength ==
  /\ trip.phase = "input"
  /\ trip' = [trip EXCEPT !.phase = "stride",
                          !.step_length = calculate_step_length_float(trip.height)]
  /\ UNCHANGED Pipeline

\* distance = calculate_distance_from_steps(steps, step_length)
DistanceFromSteps ==
  /\ trip.phase = "stride"
  /\ trip' = [trip EXCEPT !.phase = "distance",
                          !.distance = calculate_distance_from_steps_float(
                                         trip.steps, trip.step_length)]
  /\ UNCHANGED Pipeline

\* back = calculate_steps(distance, step_length)
StepsFromDistance ==
  /\ trip.phase = "distance"
  /\ trip' = [trip EXCEPT !.phase = "back",
                          !.back = calculate_steps_float(trip.distance,
                                                         trip.step_length)]
  /\ UNCHANGED Pipeline

NextStride ==
  \/ StepLength
  \/ DistanceFromSteps
  \/ StepsFromDistance

SpecStride == InitStride /\ [][NextStride]_vars

\* ----------------------------------------------- vocabulary of the claims

\* the pairs of the selected cross-product, numbered in loop order
\* (from-station outer, to-station inner)
Pairs == 1..(Len(selected_from_stations) * Len(selected_to_stations))
PairFrom(p) ==
  selected_from_stations[((p - 1) \div Len(selected_to_stations)) + 1]
PairTo(p) ==
  selected_to_stations[((p - 1) % Len(selected_to_stations)) + 1]
AnswerTo(p) == get_itinerary(service, PairFrom(p), PairTo(p))

\* the call of pair p raised
CallFailed(p) == AnswerTo(p).status = "error"
\* the answer to pair p holds a journey whose evaluation raises
Malformed(p) ==
  \E k \in 1..Len(AnswerTo(p).journeys) : ~AnswerTo(p).journeys[k].has_sections
\* pair p was queried and its answer processed without any error
Successful(p) == ~CallFailed(p) /\ ~Malformed(p)

\* itineraries, as <<pair, place in the answer>>, of a set of pairs
ItinerariesOf(P) ==
  { c \in P \X (1..3) : c[2] <= Len(AnswerTo(c[1]).journeys) }
\* the itineraries the search evaluates: in every answer, those before the
\* first journey whose evaluation raises
Evaluated ==
  { c \in ItinerariesOf(Pairs) :
      \A m \in 1..c[2] : AnswerTo(c[1]).journeys[m].has_sections }

ItineraryAt(c) == AnswerTo(c[1]).journeys[c[2]]
\* |total walking distance - target_steps * stride|, in mm
ScoreAt(c) ==
  LET sections == ItineraryAt(c).sections
      walked == { k \in 1..Len(sections) :
                    sections[k].type = "street_network"
                    /\ sections[k].mode = "walking" }
      RECURSIVE Total(_)
      Total(K) ==
        IF K = {} THEN 0
        ELSE LET k == CHOOSE x \in K : TRUE
             IN  calculate_walking_distance(sections[k]).value
                   + Total(K \ {k})
  IN  Abs(Total(walked) * 1000 - target_steps * step_length)
\* c is encountered before d, or is d
NotAfter(c, d) == c[1] < d[1] \/ (c[1] = d[1] /\ c[2] <= d[2])

\* journey is the first itinerary of minimum score among C, None for no C
IsFirstBestOf(journey, C) ==
  IF C = {} THEN journey = None
  ELSE \E c \in C :
         /\ ItineraryAt(c) = journey
         /\ \A d \in C :
              ScoreAt(c) < ScoreAt(d)
              \/ (ScoreAt(c) = ScoreAt(d) /\ NotAfter(c, d))

\* ------------------------------------------------------------------ claims

\* C1 (as stated): find_best_route returns the first itinerary of minimum
\* score among the itineraries of all successful pair queries, whatever the
\* Journey Service answers (here for a positive height and a step target
\* that is not negative).
C1_AsStated ==
  (returned /\ height > 0 /\ target_steps >= 0)
    => IsFirstBestOf(best_journey,
                     ItinerariesOf({p \in Pairs : Successful(p)}))

\* C1 (amended): find_best_route returns the first itinerary of minimum
\* score among the itineraries it evaluated: those of the successful pair
\* queries and, in an answer whose processing raised, those that precede the
\* journey that raised; None when it evaluated none.
C1_BestOfEvaluated ==
  returned => IsFirstBestOf(best_journey, Evaluated)

\* C1 witness: a search over several pairs has returned an itinerary that
\* ties with a later one on the minimum score and beats another one.
C1_Witness ==
  /\ returned
  /\ best_journey # None
  /\ \E c \in Evaluated, d \in Evaluated, e \in Evaluated :
       /\ ItineraryAt(c) = best_journey
       /\ c # d /\ ScoreAt(c) = ScoreAt(d)
       /\ ScoreAt(c) < ScoreAt(e)

\* the stations are in ascending order of distance to center
Ascending(stations, center) ==
  \A k \in 1..(Len(stations) - 1) :
    haversine_distance(stations[k].pos, center)
      <= haversine_distance(stations[k + 1].pos, center)
\* the stations are the places the Transit Directory holds around center,
\* each once
SamePlaces(stations, center) ==
  /\ \A k \in 1..Len(stations) :
       stations[k] = Nearby(center, Len(stations))[stations[k].id]
  /\ \A k, m \in 1..Len(stations) : stations[k].id = stations[m].id => k = m
\* selected is the last n stations (tail = TRUE) or the first n, n being
\* MAX_STATIONS or the number of stations if that is less
IsSlice(selected, stations, tail) ==
  LET n == IF Len(stations) > 10 THEN 10 ELSE Len(stations)
  IN  /\ Len(selected) = n
      /\ \A k \in 1..n :
           selected[k] = stations[IF tail THEN Len(stations) - n + k ELSE k]

\* C2: once find_best_route has selected its candidates, each list is in
\* ascending order of distance to its endpoint, and from each list a step
\* target above 3000 selects the last MAX_STATIONS entries (the farthest),
\* a step target of 3000 or less the first MAX_STATIONS (the closest).
C2_CandidateSelection ==
  from_idx >= 1 =>
    /\ Ascending(from_stations, Origin) /\ SamePlaces(from_stations, Origin)
    /\ Ascending(to_stations, Dest) /\ SamePlaces(to_stations, Dest)
    /\ IsSlice(selected_from_stations, from_stations, target_steps > 3000)
    /\ IsSlice(selected_to_stations, to_stations, target_steps > 3000)

\* C2 witness: candidates were selected for 3001 steps from two lists of
\* more than MAX_STATIONS stations, and a farthest station left out of the
\* head was selected.
C2_Witness ==
  /\ from_idx >= 1
  /\ target_steps = 3001
  /\ Len(from_stations) > 10 /\ Len(to_stations) > 10
  /\ selected_from_stations[10] = from_stations[Len(from_stations)]
  /\ selected_from_stations[1] # from_stations[1]

\* exactly one pair's call fails and every other answer is processed
\* without error
SingleFailure ==
  /\ Cardinality(Pairs) >= 2
  /\ Cardinality({p \in Pairs : CallFailed(p)}) = 1
  /\ \A p \in Pairs : ~CallFailed(p) => Successful(p)

\* C3: when exactly one of the N pair queries of a search fails, every pair
\* is still queried (N calls) and find_best_route returns the first
\* itinerary of minimum score of the N-1 successful queries.
C3_SingleFailureSkipped ==
  (returned /\ SingleFailure) =>
    /\ journey_calls = Cardinality(Pairs)
    /\ IsFirstBestOf(best_journey,
                     ItinerariesOf({p \in Pairs : Successful(p)}))

\* C3 witness: a search of at least four pairs, the second of which failed,
\* has returned an itinerary of a later pair.
C3_Witness ==
  /\ returned /\ SingleFailure
  /\ Cardinality(Pairs) >= 4
  /\ CallFailed(2)
  /\ best_journey # None
  /\ journey_calls = Cardinality(Pairs)

\* C4: with an empty candidate list for the origin or the destination (a
\* failed Transit Directory request gives one), the run ends in "no
\* stations" and never calls the Journey Service.
C4_NoStations ==
  (pc \notin {"input", "origin", "destination"}
   /\ (from_stations = <<>> \/ to_stations = <<>>)) =>
    /\ journey_calls = 0
    /\ pc \in {"check", "done"}
    /\ pc = "done" => outcome = "no_stations"

\* C4 witness: the run ended in "no stations" after the origin had stations
\* and the destination request failed.
C4_Witness ==
  /\ pc = "done" /\ outcome = "no_stations"
  /\ from_stations # <<>> /\ to_stations = <<>>
  /\ directory_errors = 1
  /\ journey_calls = 0

\* every call of the search fails or returns zero itineraries
AllFailedOrEmpty ==
  \A p \in Pairs : CallFailed(p) \/ AnswerTo(p).journeys = <<>>

\* C5: when both candidate lists are non-empty and every Journey Service
\* call of the search fails or returns zero itineraries, find_best_route
\* returns None and the run ends in "no suitable route", which is not the
\* "no stations" outcome, without running the aggregator.
C5_NoSuitableRoute ==
  (returned /\ from_stations # <<>> /\ to_stations # <<>> /\ AllFailedOrEmpty) =>
    /\ best_journey = None
    /\ pc = "done" =>
         (outcome = "no_route" /\ outcome # "no_stations"
          /\ summary = NoSummary)

\* C5 witness: a run whose calls partly failed and partly returned no
\* itinerary ended in "no suitable route".
C5_Witness ==
  /\ pc = "done" /\ outcome = "no_route"
  /\ journey_calls >= 2
  /\ \E p \in Pairs : CallFailed(p)
  /\ \E p \in Pairs : ~CallFailed(p)

\* C6: a run with a positive height and a step target >= 0 ends in a
\* Summary, in "no suitable route" or in "no stations", never in an
\* uncaught error, whatever the two services answer.
C6_ThreeOutcomes ==
  (pc = "done" /\ height > 0 /\ target_steps >= 0) =>
    outcome \in {"summary", "no_route", "no_stations"}

\* C7: a run with a non-positive height or a negative step target sends no
\* request to the Transit Directory or the Journey Service.
C7_ValidationBeforeNetwork ==
  (pc # "input" /\ (height <= 0 \/ target_steps < 0)) =>
    (directory_calls = 0 /\ journey_calls = 0)

\* the section is a ride, and the emission table has no entry for the first
\* token of its mode name (there is no token in an absent or empty name)
UnknownMode(section) ==
  /\ section.type = "public_transport"
  /\ LET name == IF section.display_informations.has_mode
                   THEN section.display_informations.physical_mode
                   ELSE Str_Empty
     IN  Split(name) = <<>>
         \/ \A e \in EMISSIONS : e[1] # Split(name)[1]

\* the transit CO2 of the rides whose mode the emission table knows
RECURSIVE KnownCo2(_, _)
KnownCo2(sections, k) ==
  IF k > Len(sections) THEN 0
  ELSE (IF sections[k].type = "public_transport" /\ ~UnknownMode(sections[k])
          THEN haversine_distance(sections[k].from.pos, sections[k].to.pos)
               * DictGet(EMISSIONS,
                         Split(sections[k].display_informations.physical_mode)[1], 0)
          ELSE 0)
       + KnownCo2(sections, k + 1)

\* C8: aggregating a journey that has a ride of a mode the emission table
\* does not know (an absent or empty mode name included) completes without
\* error, and that ride adds 0 g to the transit CO2 total.
C8_UnknownModeIsZero ==
  (/\ pc = "done" /\ returned /\ best_journey # None
   /\ height > 0 /\ best_journey.has_duration
   /\ \E k \in 1..Len(best_journey.sections) :
        UnknownMode(best_journey.sections[k])) =>
    /\ outcome = "summary"
    /\ summary.total_co2 = KnownCo2(best_journey.sections, 1)

\* the endpoint has neither an address nor a stop_point coordinate
NoCoordinate(endpoint) ==
  ~endpoint.present \/ (~endpoint.has_address /\ ~endpoint.has_stop_point)
\* a section calculate_walking_distance is called on
Measured(section) == IsWalking(section) \/ section.type = "public_transport"
UsesFallback(section) ==
  Measured(section)
  /\ (NoCoordinate(section.from) \/ NoCoordinate(section.to))

\* C9: for every section of the journey the search returned (for a positive
\* height and a step target >= 0) that has an endpoint with neither
\* coordinate (absent or empty included), calculate_walking_distance
\* returns 0 and prints a diagnostic.
C9_FallbackIsLogged ==
  (returned /\ best_journey # None /\ height > 0 /\ target_steps >= 0) =>
    \A k \in 1..Len(best_journey.sections) :
      UsesFallback(best_journey.sections[k]) =>
        /\ calculate_walking_distance(best_journey.sections[k]).value = 0
        /\ calculate_walking_distance(best_journey.sections[k]).diagnostic

\* the output has a diagnostic right before the line of section k
Flagged(lines, k) ==
  \E n \in 1..(Len(lines) - 1) :
    lines[n].kind = "diagnostic" /\ lines[n + 1].section = k

\* C10: in a run (with a positive height and a step target >= 0) that ends
\* in a Summary, every section of the itinerary whose distance is the
\* zero-distance fallback is flagged in the output.
C10_FallbackIsFlagged ==
  (pc = "done" /\ outcome = "summary" /\ height > 0 /\ target_steps >= 0) =>
    \A k \in 1..Len(best_journey.sections) :
      UsesFallback(best_journey.sections[k]) => Flagged(summary.lines, k)

\* the emission table of the specification, in tenths of g/km, 0 for a
\* mode it does not list
TableFactor(mode) ==
  CASE mode = Str_RER -> 38
    [] mode = Str_Metro -> 32
    [] mode = Str_Bus -> 953
    [] mode = Str_Tramway -> 33
    [] mode = Str_Train -> 38
    [] mode = Str_Car -> 2060
    [] OTHER -> 0

\* the rides of a journey, by their place in it
RidesOf(journey) ==
  { k \in 1..Len(journey.sections) :
      journey.sections[k].type = "public_transport" }
RideDistance(journey, k) ==
  calculate_walking_distance(journey.sections[k]).value
RideFactor(journey, k) ==
  TableFactor(Split(journey.sections[k].display_informations.physical_mode)[1])

RECURSIVE TransitDistance(_, _)
TransitDistance(journey, K) ==
  IF K = {} THEN 0
  ELSE LET k == CHOOSE x \in K : TRUE
       IN  RideDistance(journey, k) + TransitDistance(journey, K \ {k})
RECURSIVE TransitCo2(_, _)
TransitCo2(journey, K) ==
  IF K = {} THEN 0
  ELSE LET k == CHOOSE x \in K : TRUE
       IN  RideDistance(journey, k) * RideFactor(journey, k)
             + TransitCo2(journey, K \ {k})

\* C11: in every Summary, co2_transit is the sum over the rides of
\* distance * emission factor of the mode, co2_car_equivalent is the total
\* ride distance * the Car factor (206.0), and co2_saved is their
\* difference.
C11_Emissions ==
  (pc = "done" /\ outcome = "summary") =>
    /\ summary.total_distance = TransitDistance(best_journey, RidesOf(best_journey))
    /\ summary.total_co2 = TransitCo2(best_journey, RidesOf(best_journey))
    /\ summary.car_co2 = summary.total_distance * 2060
    /\ summary.co2_saved = summary.car_co2 - summary.total_co2

\* C11 witness: the Summary of a journey with one Bus ride of 2 km reports
\* 190.6 g for transit and 412.0 g for the car.
C11_Witness ==
  /\ pc = "done" /\ outcome = "summary"
  /\ Cardinality(RidesOf(best_journey)) = 1
  /\ summary.total_distance = 2000
  /\ summary.total_co2 = 1906000
  /\ summary.car_co2 = 4120000
  /\ summary.co2_saved = 2214000

\* C12, as stated: calculate_steps(calculate_distance_from_steps(n, s), s)
\* is n, for every step count n >= 0 and positive stride s.
C12_AsStated ==
  trip.phase = "back" => trip.back = trip.steps

\* C12, amended: calculate_steps(calculate_distance_from_steps(n, s), s) is
\* n or n - 1 (and 0 for n = 0): the product n * s and the quotient by s are
\* each rounded, and int() cuts a quotient just below n down to n - 1.
C12_RoundTripWithinOne ==
  trip.phase = "back" =>
    /\ trip.back \in {trip.steps, trip.steps - 1}
    /\ trip.back >= 0

\* C12 witness: with the stride of a height of 100 cm (0.414 m), 11 steps
\* come back as 10.
C12_Witness ==
  /\ trip.phase = "back"
  /\ trip.height = 100
  /\ trip.steps = 11
  /\ trip.back = 10

\* the per-section step counts the aggregator printed, summed, and the
\* number of walking lines it printed
RECURSIVE PrintedSteps(_, _)
PrintedSteps(lines, k) ==
  IF k > Len(lines) THEN 0
  ELSE (IF lines[k].kind = "walk" THEN lines[k].steps ELSE 0)
         + PrintedSteps(lines, k + 1)
WalkLines(lines) == { k \in 1..Len(lines) : lines[k].kind = "walk" }

\* C13, as stated: for a positive stride, the per-section step counts of the
\* walking sections sum to the total_steps of the Summary.
C13_AsStated ==
  (pc = "done" /\ outcome = "summary" /\ step_length > 0 /\ target_steps >= 0) =>
    PrintedSteps(summary.lines, 1) = summary.total_steps

\* C13, amended: with at most one walking section the two are equal;
\* otherwise the per-section step counts, each floored on its own, sum to
\* between total_steps - (number of walking sections - 1) and
\* total_steps + 1 (the excess only by rounding of the quotients at whole
\* step counts, which exact arithmetic does not produce).
C13_SectionStepsNearTotal ==
  (pc = "done" /\ outcome = "summary" /\ step_length > 0) =>
    LET printed == PrintedSteps(summary.lines, 1)
        walks == Cardinality(WalkLines(summary.lines))
    IN  /\ walks = 0 => (printed = 0 /\ summary.total_steps = 0)
        /\ walks = 1 => printed = summary.total_steps
        /\ walks > 1 => /\ summary.total_steps - printed <= walks - 1
                        /\ printed - summary.total_steps <= 1

\* C13 witness: a Summary with two walking sections whose floored counts
\* sum to one step less than the floored total.
C13_Witness ==
  /\ pc = "done" /\ outcome = "summary" /\ step_length > 0
  /\ Cardinality(WalkLines(summary.lines)) = 2
  /\ PrintedSteps(summary.lines, 1) = summary.total_steps - 1

\* the get_itinerary calls made so far, in order
JourneyEvents == SelectSeq(events, LAMBDA e : e.kind = "journey")
KindCount(kind) == Len(SelectSeq(events, LAMBDA e : e.kind = kind))

\* C14: the get_itinerary calls of a search are, in loop order, one call for
\* each pair of the selected cross-product: the i-th call is for the i-th
\* pair, whatever earlier calls failed or matched exactly; there are never
\* more than |selected_from| * |selected_to| <= MAX_STATIONS^2 calls, the
\* loops are not over while a pair is left, and when find_best_route
\* returns every pair has been queried exactly once.
C14_OneCallPerPair ==
  LET calls == JourneyEvents
  IN  /\ Len(calls) = journey_calls
      /\ Len(calls) <= Cardinality(Pairs)
      /\ Cardinality(Pairs) <= MAX_STATIONS * MAX_STATIONS
      /\ \A i \in 1..Len(calls) :
           calls[i].from = PairFrom(i).id /\ calls[i].to = PairTo(i).id
      /\ \A i \in 1..(Len(calls) - 1) :
           \* the latest call repeats no earlier one
           calls[i].from # calls[Len(calls)].from
           \/ calls[i].to # calls[Len(calls)].to
      /\ pc = "search" =>
           Len(calls) = (from_idx - 1) * Len(selected_to_stations) + to_idx - 1
      /\ returned => Len(calls) = Cardinality(Pairs)

\* C14 witness: a search over 10 x 10 stations has returned after 100
\* calls, one of which failed and an earlier one of which gave an exact
\* match.
C14_Witness ==
  /\ returned
  /\ Len(JourneyEvents) = 100
  /\ \E p \in Pairs : CallFailed(p) /\ \E c \in Evaluated : c[1] < p /\ ScoreAt(c) = 0

\* C15: the calls of a run are, in order: the Transit Directory request
\* for the origin, the one for the destination, the get_itinerary calls of
\* the search, then at most one format_itinerary_with_steps call; both
\* directory requests are made before the station check, and the format
\* call comes after find_best_route has queried every pair and returned,
\* on the journey it returned.
C15_PhasesInSequence ==
  /\ \A i \in 1..Len(events) :
       /\ events[i].kind = "origin" <=> i = 1
       /\ events[i].kind = "destination" <=> i = 2
       /\ i > 2 => events[i].kind \in {"journey", "format"}
       /\ events[i].kind = "format" =>
            /\ i = Len(events)
            /\ returned /\ pc = "done"
            /\ KindCount("journey") = Cardinality(Pairs)
            /\ best_journey # None
            /\ events[i].oid = best_journey.oid
  /\ Len(events) >= (IF pc \in {"input", "origin"} THEN 0
                     ELSE IF pc = "destination" THEN 1 ELSE 2)
  /\ pc \in {"input", "origin", "destination", "check", "select"} =>
       KindCount("journey") = 0
  /\ directory_calls = KindCount("origin") + KindCount("destination")
  /\ outcome = "summary" => KindCount("format") = 1

\* C15 witness: a run that ended with a Summary made the two directory
\* requests, 100 get_itinerary calls and then the format call.
C15_Witness ==
  /\ pc = "done" /\ outcome = "summary"
  /\ Len(events) = 103
  /\ events[1].kind = "origin" /\ events[2].kind = "destination"
  /\ events[3].kind = "journey" /\ events[102].kind = "journey"
  /\ events[103].kind = "format"

\* the itineraries of pair p that the search evaluates
EvaluatedOf(p) ==
  LET journeys == AnswerTo(p).journeys
  IN  { c \in {p} \X (1..Len(journeys)) :
          \A m \in 1..c[2] : journeys[m].has_sections }
\* the itineraries evaluated by the pairs queried so far
EvaluatedSoFar == UNION { EvaluatedOf(p) : p \in 1..journey_calls }

\* the walking sections of a journey, their distances summed (m), and the
\* score |walking distance - target_steps * stride| (mm)
WalkingSections(journey) ==
  { k \in 1..Len(journey.sections) :
      journey.sections[k].type = "street_network"
      /\ journey.sections[k].mode = "walking" }
RECURSIVE DistanceOver(_, _)
DistanceOver(sections, K) ==
  IF K = {} THEN 0
  ELSE LET k == CHOOSE x \in K : TRUE
       IN  calculate_walking_distance(sections[k]).value
             + DistanceOver(sections, K \ {k})
WalkedDistance(journey) ==
  DistanceOver(journey.sections, WalkingSections(journey))
ScoreOf(journey) ==
  Abs(WalkedDistance(journey) * 1000 - target_steps * step_length)

\* the tracker holds nothing, or an itinerary of a pair queried so far, its
\* score, and no more than the score of any itinerary of the pair just
\* queried (hence, as the score never rises, of any pair queried so far:
\* stated outright for the search that has returned)
TrackerConsistent ==
  /\ best_journey = None <=> best_score = Inf
  /\ best_journey # None =>
       /\ best_score = ScoreOf(best_journey)
       /\ \E p \in 1..journey_calls :
            /\ PairFrom(p).id = best_journey.oid[1]
            /\ PairTo(p).id = best_journey.oid[2]
            /\ \E c \in EvaluatedOf(p) : ItineraryAt(c) = best_journey
  /\ journey_calls > 0 =>
       \A d \in EvaluatedOf(journey_calls) :
         best_score # Inf /\ best_score <= ScoreOf(ItineraryAt(d))
  /\ returned =>
       \A d \in EvaluatedSoFar :
         best_score # Inf /\ best_score <= ScoreOf(ItineraryAt(d))

\* one iteration of the search loop never raises best_score, never empties
\* the tracker, and changes best_journey only for a strictly smaller score
TrackerStep ==
  pc = "search" =>
    /\ best_score # Inf => (best_score' # Inf /\ best_score' <= best_score)
    /\ best_journey' # best_journey =>
         (best_score' # Inf /\ (best_score = Inf \/ best_score' < best_score))
    /\ best_journey' = best_journey => best_score' = best_score

\* C16: in every state of the search loop best_journey is None exactly when
\* best_score is infinite; otherwise best_score is the score of best_journey
\* and at most the score of every itinerary evaluated so far; from one
\* iteration to the next best_score never increases and the tracker is
\* replaced only on a strictly smaller score.
C16_TrackerInvariant == [](TrackerConsistent) /\ [][TrackerStep]_vars

\* C16 witness: in the middle of the search the tracker holds an itinerary
\* although a worse one and a later one of equal score have been evaluated.
C16_Witness ==
  /\ pc = "search" /\ journey_calls >= 2
  /\ best_journey # None
  /\ \E d \in EvaluatedSoFar : ScoreAt(d) > best_score
  /\ \E e \in EvaluatedSoFar :
       ScoreAt(e) = best_score /\ ItineraryAt(e) # best_journey

\* the pair the loops are at, by its number in loop order
CurrentPair == (from_idx - 1) * Len(selected_to_stations) + to_idx

\* one iteration of the search loop on a pair whose answer holds a journey
\* that raises: the journeys before it are evaluated as in any answer, the
\* rest are not, and the loops move on
PartialResponseStep ==
  (pc = "search" /\ ~CallFailed(CurrentPair) /\ Malformed(CurrentPair)) =>
    LET p == CurrentPair
        kept == EvaluatedOf(p)
        improving ==
          { c \in kept :
              best_score = Inf \/ ScoreOf(ItineraryAt(c)) < best_score }
    IN  /\ journey_calls' = journey_calls + 1
        /\ IF improving = {}
             THEN best_journey' = best_journey /\ best_score' = best_score
             ELSE \E c \in kept :
                    /\ best_journey' = ItineraryAt(c)
                    /\ best_score' = ScoreOf(ItineraryAt(c))
                    /\ \A d \in kept :
                         \/ best_score' < ScoreOf(ItineraryAt(d))
                         \/ (best_score' = ScoreOf(ItineraryAt(d)) /\ c[2] <= d[2])
        /\ IF p = Cardinality(Pairs)
             THEN returned' /\ pc' = "route"
             ELSE /\ ~returned' /\ pc' = "search"
                  /\ (from_idx' - 1) * Len(selected_to_stations) + to_idx' = p + 1

\* C17: when the evaluation of a pair's answer raises at its k-th
\* itinerary, the tracker keeps what itineraries 1..k-1 of that answer gave
\* it, itineraries k+1.. are never evaluated, and the search goes on with
\* the next pair.
C17_PartialResponseKept == [][PartialResponseStep]_vars

\* C17 witness: the search has returned an itinerary of an answer whose
\* processing raised, before the last pair, although an itinerary behind
\* the one that raised has a strictly smaller score.
C17_Witness ==
  /\ returned /\ best_journey # None
  /\ \E p \in Pairs :
       /\ p < Cardinality(Pairs)
       /\ ~CallFailed(p) /\ Malformed(p)
       /\ \E c \in EvaluatedOf(p) : ItineraryAt(c) = best_journey
       /\ \E m \in 1..Len(AnswerTo(p).journeys) :
            /\ AnswerTo(p).journeys[m].has_sections
            /\ <<p, m>> \notin EvaluatedOf(p)
            /\ ScoreOf(AnswerTo(p).journeys[m]) < best_score

\* C18: when a Summary is printed for the journey find_best_route returned,
\* its total walking distance is the sum of calculate_walking_distance over
\* exactly the sections of type street_network and mode walking, and it is
\* the walking distance of the score the search kept for that journey.
C18_SameWalkingDistance ==
  (pc = "done" /\ outcome = "summary") =>
    /\ summary.total_walking_distance = WalkedDistance(best_journey)
    /\ best_score =
         Abs(summary.total_walking_distance * 1000 - target_steps * step_length)

\* C18 witness: a Summary for a journey that also has sections of another
\* kind with a distance of their own (a ride, a street_network section
\* that is not walked).
C18_Witness ==
  /\ pc = "done" /\ outcome = "summary"
  /\ summary.total_walking_distance > 0
  /\ \E k \in 1..Len(best_journey.sections) :
       /\ best_journey.sections[k].type = "public_transport"
       /\ calculate_walking_distance(best_journey.sections[k]).value > 0
  /\ \E k \in 1..Len(best_journey.sections) :
       /\ best_journey.sections[k].type = "street_network"
       /\ best_journey.sections[k].mode # "walking"
       /\ calculate_walking_distance(best_journey.sections[k]).value > 0

====
